---- MODULE Spec2Model ----
(***************************************************************************)
(* Event-management admin tool (src/app.py): a Streamlit front end over a  *)
(* hosted table store.  The store holds the tables usuarios, eventos,      *)
(* eventos_organizadores and eventos_asistentes; every browser session has *)
(* its own st.session_state (perfil, evento_edit).  Every user interaction *)
(* is one run of the script; an action below is the run triggered by one   *)
(* click, with the store calls it makes.                                   *)
(***************************************************************************)
EXTENDS Integers, Sequences, FiniteSets, Bags, TLC

----------------------------------------------------------------------------
(* Bounds of the model *)

\* number of rows the eventos table may grow to
MaxEventos == 2

\* number of rows the eventos_asistentes table may grow to
MaxAsistentes == 3

----------------------------------------------------------------------------
(* Values *)

\* Python None / SQL NULL for a nullable integer column or a session slot
None == -1

\* rol_id the enroll view selects organizers by
ORG_ROLE_ID == 2

\* browser sessions, each with its own st.session_state
Sesiones == {1, 2}

\* Passwords are encoded as numbers; 0 encodes the empty string.
Passwords == 0..2

\* bcrypt: the stored hash carries its salt; the digest is recomputed from
\* the salt and the entered password.
Digest(salt, password) == (7 * password + 3 * salt) % 11

HashPw(salt, password) == [salt |-> salt, digest |-> Digest(salt, password)]

\* a user row whose password column is NULL
SinHash == [salt |-> None, digest |-> None]

\* Table roles: id -> nombre
Roles == [r \in {1, 2} |-> IF r = 2 THEN "ORGANIZADOR" ELSE "ESTUDIANTE"]

\* Table usuarios (provisioned administratively, never written by the app):
\* id -> row.  Users 1 and 2 are organizers, 3 and 4 students, 5 a student
\* whose password was never configured.
Usuarios ==
  [u \in 1..5 |->
     CASE u = 1 -> [username |-> "ana",  password |-> HashPw(1, 1), rol_id |-> 2]
       [] u = 2 -> [username |-> "beto", password |-> HashPw(2, 2), rol_id |-> 2]
       [] u = 3 -> [username |-> "caro", password |-> HashPw(3, 1), rol_id |-> 1]
       [] u = 4 -> [username |-> "dani", password |-> HashPw(4, 2), rol_id |-> 1]
       [] u = 5 -> [username |-> "eli",  password |-> SinHash,      rol_id |-> 1]]

UsuarioIds == DOMAIN Usuarios

\* what can be typed into the "Usuario" box: the known names, an unknown
\* one and the empty string
Usernames == {"", "ana", "beto", "caro", "dani", "eli", "zoe"}

\* usuarios.select("*, roles(nombre)"): the role name joined to the row
RolNombre(u) == Roles[Usuarios[u].rol_id]

----------------------------------------------------------------------------
(* State *)

VARIABLES
  eventos,        \* table eventos: sequence of rows, id = index (serial key)
  organizadores,  \* table eventos_organizadores: sequence of rows
  asistentes,     \* table eventos_asistentes: set of rows
  perfil,         \* st.session_state.perfil per session (user id or None)
  evento_edit,    \* st.session_state.evento_edit per session (event id or None)
  pend,           \* per session: the enroll run between its reads and its write
  out             \* what the last script run did and showed

vars == <<eventos, organizadores, asistentes, perfil, evento_edit, pend, out>>

store == <<eventos, organizadores, asistentes>>

sesion == <<perfil, evento_edit>>

----------------------------------------------------------------------------
(* What a run leaves on the page *)

\* the record of one script run: the session, the click, the store call that
\* failed, how the run ended ("ok", "error": a message from an except
\* branch or a validation, "no_capturada": an exception no handler caught),
\* the text shown, the row written, and what the handler was given; repetido
\* tells that the write found the row already as it wrote it, form is the
\* widget values of a saved edit, and tras the click of the other session that
\* wrote the same event row in the run just before this one
Salida(s, op, falla, fin, msg) ==
  [s |-> s, op |-> op, falla |-> falla, fin |-> fin, msg |-> msg,
   ev |-> None, usr |-> None, vacio |-> FALSE, llamadas |-> 0,
   repetido |-> FALSE, username |-> "", password |-> 0,
   form |-> [nombre |-> "", fecha |-> 0, limite |-> 0, org_id |-> None,
             facultad_id |-> None],
   tras |-> ""]

\* an exception raised by get_eventos_para_organizador inside dashboard_view
\* or inscripciones_asistencia_view: no try block encloses the call
NoCapturada(s, op, falla) == Salida(s, op, falla, "no_capturada", "Traceback")

----------------------------------------------------------------------------
(* Store queries *)

EventoIds == 1..Len(eventos)

\* the ids of the rows of eventos, in key order
TodosIds == [i \in 1..Len(eventos) |-> i]

Activo(e) == eventos[e].estado = "ACTIVO"

\* .eq("usuario_creador_id", usuario_id).eq("estado", "ACTIVO")
R1(usuario_id) ==
  SelectSeq(TodosIds, LAMBDA e : eventos[e].usuario_creador_id = usuario_id /\ Activo(e))

\* R2 without its .eq("estado", "ACTIVO")
R2_SinEstado(usuario_id) ==
  SelectSeq(TodosIds, LAMBDA e :
     \E r \in BagToSet(organizadores) :
        r.evento_id = e /\ r.usuario_id = usuario_id)

\* eventos_organizadores!inner(usuario_id) with the filter on the embedded
\* table: an event row is returned once when at least one embedded row matches
R2(usuario_id) ==
  SelectSeq(TodosIds, LAMBDA e :
     /\ \E r \in BagToSet(organizadores) :
          r.evento_id = e /\ r.usuario_id = usuario_id
     /\ Activo(e))

\* eventos[e["id"]] = e on a dict: a new key goes last, an old key keeps
\* its place
DictPut(keys, k) ==
  IF \E i \in 1..Len(keys) : keys[i] = k THEN keys ELSE Append(keys, k)

RECURSIVE DictPutAll(_, _)
DictPutAll(keys, rows) ==
  IF rows = <<>> THEN keys
  ELSE DictPutAll(DictPut(keys, Head(rows)), Tail(rows))

\* the list of (ids of) events an organizer has access to
get_eventos_para_organizador(usuario_id) ==
  DictPutAll(DictPutAll(<<>>, R1(usuario_id)), R2(usuario_id))

\* the student branch of lista_eventos_view: .eq("estado", "ACTIVO")
EventosActivos == SelectSeq(TodosIds, LAMBDA e : Activo(e))

\* lista_eventos_view whose student branch selects without the estado filter
ListaEventos_Todos(usuario_id, es_organizador) ==
  IF es_organizador THEN get_eventos_para_organizador(usuario_id)
  ELSE SelectSeq(TodosIds, LAMBDA e : TRUE)

\* the events lista_eventos_view shows
ListaEventos(usuario_id, es_organizador) ==
  IF es_organizador THEN get_eventos_para_organizador(usuario_id)
  ELSE EventosActivos

\* the events the enroll view offers: .eq("estado", "ACTIVO")
EnrolarEventos == SelectSeq(TodosIds, LAMBDA e : Activo(e))

Rango(seq) == {seq[i] : i \in 1..Len(seq)}

\* no enroll click is being processed
SinPendiente == [evento_id |-> None, usuario_id |-> None]

----------------------------------------------------------------------------
(* Initial state: empty tables, no session logged in (init_session) *)

Init ==
  /\ eventos = <<>>
  /\ organizadores = EmptyBag
  /\ asistentes = {}
  /\ perfil = [s \in Sesiones |-> None]
  /\ evento_edit = [s \in Sesiones |-> None]
  /\ pend = [s \in Sesiones |-> SinPendiente]
  /\ out = Salida(0, "init", "ninguna", "ok", "")

----------------------------------------------------------------------------
(* Login *)

\* a login that never compares the password
CheckPw_Siempre(password, stored_hash) == TRUE

\* bcrypt.checkpw(password, stored_hash)
CheckPw(password, stored_hash) ==
  Digest(stored_hash.salt, password) = stored_hash.digest

\* .eq("username", username): the ids of the matching rows, in key order
UsuariosPorUsername(username) ==
  {u \in UsuarioIds : Usuarios[u].username = username}

\* the outcome of the "Ingresar" handler: the message shown and the row that
\* becomes the session profile (None when the login is refused)
LoginResultado(username, password, falla) ==
  LET filas == UsuariosPorUsername(username)
      user_row == CHOOSE u \in filas : \A v \in filas : u <= v
  IN IF username = "" \/ password = 0
       THEN [msg |-> "Completa usuario y contraseña.", perfil |-> None, llamadas |-> 0]
     ELSE IF falla = "handler"
       THEN [msg |-> "Error al intentar iniciar sesión", perfil |-> None, llamadas |-> 1]
     ELSE IF filas = {}
       THEN [msg |-> "Usuario no encontrado.", perfil |-> None, llamadas |-> 1]
     ELSE IF Usuarios[user_row].password = SinHash
       THEN [msg |-> "El usuario no tiene contraseña configurada.", perfil |-> None, llamadas |-> 1]
     ELSE IF ~CheckPw(password, Usuarios[user_row].password)
       THEN [msg |-> "Contraseña incorrecta.", perfil |-> None, llamadas |-> 1]
     ELSE [msg |-> "Inicio de sesión correcto.", perfil |-> user_row, llamadas |-> 1]

\* a session that is mid-run (between the reads and the write of an enroll
\* click) takes no other click
Libre(s) == pend[s] = SinPendiente

\* main() shows login_view only while the session has no profile
Login(s, username, password, falla) ==
  /\ Libre(s)
  /\ perfil[s] = None
  /\ falla \in {"ninguna", "handler"}
  /\ LET r == LoginResultado(username, password, falla)
     IN /\ perfil' = [perfil EXCEPT ![s] = r.perfil]
        /\ out' = [Salida(s, "login", IF r.llamadas = 0 THEN "ninguna" ELSE falla,
                          IF r.perfil = None THEN "error" ELSE "ok", r.msg)
                     EXCEPT !.vacio = (username = "" \/ password = 0),
                            !.llamadas = r.llamadas,
                            !.username = username,
                            !.password = password]
  /\ UNCHANGED <<eventos, organizadores, asistentes, evento_edit, pend>>

\* a logout that leaves evento_edit in the session
Logout_SinLimpiar(s) ==
  /\ pend[s] = SinPendiente
  /\ perfil[s] # None
  /\ perfil' = [perfil EXCEPT ![s] = None]
  /\ out' = Salida(s, "logout", "ninguna", "ok", "")
  /\ UNCHANGED <<eventos, organizadores, asistentes, evento_edit, pend>>

\* "Cerrar sesión" in the sidebar, drawn before any view runs
Logout(s) ==
  /\ Libre(s)
  /\ perfil[s] # None
  /\ perfil' = [perfil EXCEPT ![s] = None]
  /\ evento_edit' = [evento_edit EXCEPT ![s] = None]
  /\ out' = Salida(s, "logout", "ninguna", "ok", "")
  /\ UNCHANGED <<eventos, organizadores, asistentes, pend>>

EsOrganizador(s) == perfil[s] # None /\ RolNombre(perfil[s]) = "ORGANIZADOR"

----------------------------------------------------------------------------
(* Events: create, list, edit, deactivate *)

\* str(fecha_evento): the date picker's value as ISO text
FechaStr(fecha) == IF fecha = 1 THEN "2025-01-01" ELSE "2025-01-02"

\* What the widgets of the create and edit forms can hold: name, date,
\* limit (0 = unlimited), organization and (optional) faculty of it.
Formularios ==
  { [nombre |-> "a", fecha |-> 1, limite |-> 0, org_id |-> 1, facultad_id |-> None],
    [nombre |-> "b", fecha |-> 2, limite |-> 5, org_id |-> 2, facultad_id |-> 3],
    [nombre |-> "",  fecha |-> 1, limite |-> 0, org_id |-> 1, facultad_id |-> None] }

\* "limite_asistentes": None if limite == 0 else int(limite)
LimiteAsistentes(limite) == IF limite = 0 THEN None ELSE limite

\* the row crear_evento_form inserts
NuevoEvento(form, usuario_id) ==
  [nombre |-> form.nombre,
   fecha_evento |-> FechaStr(form.fecha),
   usuario_creador_id |-> usuario_id,
   limite_asistentes |-> LimiteAsistentes(form.limite),
   modelo_negocio_id |-> form.org_id,
   facultad_id |-> form.facultad_id,
   estado |-> "ACTIVO"]

\* the update leaving the attendee limit out of data
EventoEditado_SinLimite(row, form) ==
  [row EXCEPT !.nombre = form.nombre,
              !.fecha_evento = FechaStr(form.fecha),
              !.modelo_negocio_id = form.org_id,
              !.facultad_id = form.facultad_id]

\* the update writing the data of the create form, estado included
EventoEditado_Reactiva(row, form) ==
  [row EXCEPT !.nombre = form.nombre,
              !.fecha_evento = FechaStr(form.fecha),
              !.limite_asistentes = LimiteAsistentes(form.limite),
              !.modelo_negocio_id = form.org_id,
              !.facultad_id = form.facultad_id,
              !.estado = "ACTIVO"]

\* the row after editar_evento_view's update(data).eq("id", ...)
EventoEditado(row, form) ==
  [row EXCEPT !.nombre = form.nombre,
              !.fecha_evento = FechaStr(form.fecha),
              !.limite_asistentes = LimiteAsistentes(form.limite),
              !.modelo_negocio_id = form.org_id,
              !.facultad_id = form.facultad_id]

\* the deactivation writing a state name the listings do not know
EventoDesactivado_Otro(row) == [row EXCEPT !.estado = "INACTIVE"]

\* the row after update({"estado": "INACTIVO"}).eq("id", ...)
EventoDesactivado(row) == [row EXCEPT !.estado = "INACTIVO"]

\* "Guardar evento"
CrearEvento(s, form, falla) ==
  /\ Libre(s)
  /\ EsOrganizador(s)
  /\ falla \in {"ninguna", "dashboard", "handler"}
  /\ IF falla = "dashboard"
       THEN /\ out' = NoCapturada(s, "crear", falla)
            /\ UNCHANGED eventos
     ELSE IF form.nombre = ""
       THEN /\ out' = [Salida(s, "crear", "ninguna", "error",
                              "El nombre del evento es obligatorio.")
                         EXCEPT !.vacio = TRUE]
            /\ UNCHANGED eventos
     ELSE IF falla = "handler"
       THEN /\ out' = [Salida(s, "crear", falla, "error", "Error al crear evento")
                         EXCEPT !.llamadas = 1]
            /\ UNCHANGED eventos
     ELSE /\ Len(eventos) < MaxEventos
          /\ eventos' = Append(eventos, NuevoEvento(form, perfil[s]))
          /\ out' = [Salida(s, "crear", falla, "ok", "Evento creado correctamente.")
                       EXCEPT !.llamadas = 1, !.ev = Len(eventos) + 1]
  /\ UNCHANGED <<organizadores, asistentes, perfil, evento_edit, pend>>

\* the "Editar #id" button of a listed event: st.session_state.evento_edit = ev.
\* Of the row kept in evento_edit only the id reaches the store; its other
\* fields pre-fill the widgets, whose values are the Formularios.
EditarClick(s, e, falla) ==
  /\ Libre(s)
  /\ EsOrganizador(s)
  /\ falla \in {"ninguna", "dashboard", "lista", "inscripciones"}
  /\ IF falla = "dashboard"
       THEN /\ out' = NoCapturada(s, "editar", falla)
            /\ UNCHANGED evento_edit
     ELSE IF falla = "lista"
       THEN /\ out' = Salida(s, "editar", falla, "error", "Error al obtener eventos")
            /\ UNCHANGED evento_edit
     ELSE /\ e \in Rango(ListaEventos(perfil[s], TRUE))
          /\ evento_edit' = [evento_edit EXCEPT ![s] = e]
          /\ out' = IF falla = "inscripciones"
                      THEN NoCapturada(s, "editar", falla)
                      ELSE Salida(s, "editar", falla, "ok", "")
  /\ UNCHANGED <<eventos, organizadores, asistentes, perfil, pend>>

\* the "Eliminar #id" button of a listed event
EliminarClick(s, e, falla) ==
  /\ Libre(s)
  /\ EsOrganizador(s)
  /\ falla \in {"ninguna", "dashboard", "lista", "handler"}
  /\ IF falla = "dashboard"
       THEN /\ out' = NoCapturada(s, "eliminar", falla)
            /\ UNCHANGED eventos
     ELSE IF falla = "lista"
       THEN /\ out' = Salida(s, "eliminar", falla, "error", "Error al obtener eventos")
            /\ UNCHANGED eventos
     ELSE /\ e \in Rango(ListaEventos(perfil[s], TRUE))
          /\ IF falla = "handler"
               THEN /\ out' = [Salida(s, "eliminar", falla, "error",
                                      "Error al desactivar evento")
                                 EXCEPT !.llamadas = 1]
                    /\ UNCHANGED eventos
               ELSE /\ eventos' = [eventos EXCEPT ![e] = EventoDesactivado(@)]
                    /\ out' = [Salida(s, "eliminar", falla, "ok",
                                      "Evento desactivado (eliminación lógica).")
                                 EXCEPT !.llamadas = 1, !.ev = e]
  /\ UNCHANGED <<organizadores, asistentes, perfil, evento_edit, pend>>

\* "Guardar cambios" of the edit panel
GuardarCambios(s, form, falla) ==
  /\ Libre(s)
  /\ EsOrganizador(s)
  /\ evento_edit[s] # None
  /\ falla \in {"ninguna", "dashboard", "handler"}
  /\ IF falla = "dashboard"
       THEN /\ out' = NoCapturada(s, "guardar", falla)
            /\ UNCHANGED <<eventos, evento_edit>>
     ELSE IF falla = "handler"
       THEN /\ out' = [Salida(s, "guardar", falla, "error", "Error al actualizar evento")
                         EXCEPT !.llamadas = 1, !.vacio = (form.nombre = ""),
                                !.form = form]
            /\ UNCHANGED <<eventos, evento_edit>>
     ELSE /\ eventos' = [eventos EXCEPT ![evento_edit[s]] = EventoEditado(@, form)]
          /\ evento_edit' = [evento_edit EXCEPT ![s] = None]
          /\ out' = [Salida(s, "guardar", falla, "ok", "Evento actualizado.")
                       EXCEPT !.llamadas = 1, !.ev = evento_edit[s],
                              !.vacio = (form.nombre = ""),
                              !.form = form,
                              !.repetido =
                                (EventoEditado(eventos[evento_edit[s]], form)
                                   = eventos[evento_edit[s]]),
                              !.tras = IF /\ out.fin = "ok"
                                          /\ out.op \in {"guardar", "eliminar"}
                                          /\ out.ev = evento_edit[s]
                                          /\ out.s # s
                                       THEN out.op ELSE ""]
  /\ UNCHANGED <<organizadores, asistentes, perfil, pend>>

\* "Cancelar" of the edit panel
Cancelar(s, falla) ==
  /\ Libre(s)
  /\ EsOrganizador(s)
  /\ evento_edit[s] # None
  /\ falla \in {"ninguna", "dashboard"}
  /\ IF falla = "dashboard"
       THEN /\ out' = NoCapturada(s, "cancelar", falla)
            /\ UNCHANGED evento_edit
       ELSE /\ evento_edit' = [evento_edit EXCEPT ![s] = None]
            /\ out' = Salida(s, "cancelar", falla, "ok", "")
  /\ UNCHANGED <<eventos, organizadores, asistentes, perfil, pend>>

----------------------------------------------------------------------------
(* Enrolling co-organizers *)

\* .select("usuario_id").eq("evento_id", evento_id) as a set of user ids
Enrolados(evento_id) ==
  {r.usuario_id : r \in {x \in BagToSet(organizadores) : x.evento_id = evento_id}}

\* .eq("rol_id", ORG_ROLE_ID)
Orgs == {u \in UsuarioIds : Usuarios[u].rol_id = ORG_ROLE_ID}

\* the candidates filtered on the enrolled rows alone
Candidatos_ConCreador(evento_id, enrolados_ids) ==
  {o \in Orgs : o \notin enrolados_ids}

\* candidatos: NO creador, NO ya enrolados
Candidatos(evento_id, enrolados_ids) ==
  {o \in Orgs : o # eventos[evento_id].usuario_creador_id /\ o \notin enrolados_ids}

\* upsert on eventos_organizadores, whose rows are unique per
\* (evento_id, usuario_id): a row that is already there is rewritten in
\* place, a new one is inserted
Upsert(tabla, row) ==
  IF BagIn(row, tabla) THEN tabla ELSE tabla (+) SetToBag({row})

\* the enroll write done with insert(data) instead of upsert(data)
EscribirEnrolamiento_Insert(tabla, data) == tabla (+) SetToBag({data})

\* supabase.table("eventos_organizadores").upsert(data).execute()
EscribirEnrolamiento(tabla, data) == Upsert(tabla, data)

\* The run of an "Enrolar organizador" click up to its write: the view reads
\* the ACTIVO events, the rows enrolled on the selected event and the
\* organizers, and offers the candidates; the click carries one of them.
\* When the read of the enrolled rows fails the view goes on with none.
EnrolarLeer(s, e, u, falla) ==
  /\ Libre(s)
  /\ EsOrganizador(s)
  /\ falla \in {"ninguna", "dashboard", "eventos", "enrolados", "usuarios"}
  /\ IF falla = "dashboard"
       THEN /\ out' = NoCapturada(s, "enrolar_leer", falla)
            /\ UNCHANGED pend
     ELSE IF falla = "eventos"
       THEN /\ out' = Salida(s, "enrolar_leer", falla, "error", "Error al obtener eventos")
            /\ UNCHANGED pend
     ELSE IF falla = "usuarios"
       THEN /\ out' = Salida(s, "enrolar_leer", falla, "error",
                             "Error al obtener organizadores")
            /\ UNCHANGED pend
     ELSE /\ e \in Rango(EnrolarEventos)
          /\ LET enrolados_ids == IF falla = "enrolados" THEN {} ELSE Enrolados(e)
             IN u \in Candidatos(e, enrolados_ids)
          /\ pend' = [pend EXCEPT ![s] = [evento_id |-> e, usuario_id |-> u]]
          /\ out' = Salida(s, "enrolar_leer", falla, "ok", "")
  /\ UNCHANGED <<eventos, organizadores, asistentes, perfil, evento_edit>>

\* the write of the same run: upsert(data)
EnrolarEscribir(s, falla) ==
  /\ ~Libre(s)
  /\ falla \in {"ninguna", "handler"}
  /\ pend' = [pend EXCEPT ![s] = SinPendiente]
  /\ IF falla = "handler"
       THEN /\ out' = [Salida(s, "enrolar", falla, "error", "Error al enrolar organizador")
                         EXCEPT !.llamadas = 1]
            /\ UNCHANGED organizadores
       ELSE /\ organizadores' = EscribirEnrolamiento(organizadores, pend[s])
            /\ out' = [Salida(s, "enrolar", falla, "ok", "Organizador enrolado al evento.")
                         EXCEPT !.llamadas = 1,
                                !.ev = pend[s].evento_id,
                                !.usr = pend[s].usuario_id,
                                !.repetido = BagIn(pend[s], organizadores)]
  /\ UNCHANGED <<eventos, asistentes, perfil, evento_edit>>

----------------------------------------------------------------------------
(* Dashboard *)

\* .in_("evento_id", eventos_ids) on eventos_asistentes
Registros(eventos_ids) == {r \in asistentes : r.evento_id \in eventos_ids}

CeroResumen == [registrados |-> 0, asistidos |-> 0]

\* the loop counting every record as registered, attended or not
Contar_Acumulado(resumen, r) ==
  LET e_id == r.evento_id
      con == IF e_id \in DOMAIN resumen THEN resumen ELSE resumen @@ (e_id :> CeroResumen)
  IN IF r.estado = "ASISTIDO"
       THEN [con EXCEPT ![e_id].asistidos = @ + 1, ![e_id].registrados = @ + 1]
       ELSE [con EXCEPT ![e_id].registrados = @ + 1]

\* one turn of "for r in registros"
Contar(resumen, r) ==
  LET e_id == r.evento_id
      con == IF e_id \in DOMAIN resumen THEN resumen ELSE resumen @@ (e_id :> CeroResumen)
  IN IF r.estado = "ASISTIDO"
       THEN [con EXCEPT ![e_id].asistidos = @ + 1]
       ELSE [con EXCEPT ![e_id].registrados = @ + 1]

RECURSIVE ContarTodos(_, _)
ContarTodos(resumen, registros) ==
  IF registros = {} THEN resumen
  ELSE LET r == CHOOSE x \in registros : TRUE
       IN ContarTodos(Contar(resumen, r), registros \ {r})

\* the per-event summary dashboard_view shows to an organizer
Resumen(usuario_id) ==
  LET eventos_ids == Rango(get_eventos_para_organizador(usuario_id))
  IN ContarTodos([e \in eventos_ids |-> CeroResumen], Registros(eventos_ids))

\* total_registros and total_asistidos
Totales(usuario_id) ==
  LET registros == Registros(Rango(get_eventos_para_organizador(usuario_id)))
  IN [registros |-> Cardinality(registros),
      asistidos |-> Cardinality({r \in registros : r.estado = "ASISTIDO"})]

----------------------------------------------------------------------------
(* A run with no click: the page is drawn from the store *)

Render(s, falla) ==
  /\ Libre(s)
  /\ IF perfil[s] = None
       THEN /\ falla = "ninguna"
            /\ out' = Salida(s, "render", falla, "ok", "Login")
     ELSE IF ~EsOrganizador(s)
       THEN /\ falla \in {"ninguna", "lista"}
            /\ out' = IF falla = "lista"
                        THEN Salida(s, "render", falla, "error", "Error al obtener eventos")
                        ELSE Salida(s, "render", falla, "ok", "Vista estudiante")
     ELSE /\ falla \in {"ninguna", "dashboard", "asistentes", "lista", "inscripciones"}
          /\ out' =
               CASE falla \in {"dashboard", "inscripciones"} ->
                      NoCapturada(s, "render", falla)
                 [] falla = "asistentes" ->
                      IF get_eventos_para_organizador(perfil[s]) = <<>>
                        THEN Salida(s, "render", "ninguna", "ok", "Dashboard")
                        ELSE Salida(s, "render", falla, "error",
                                    "Error al obtener datos de eventos_asistentes")
                 [] falla = "lista" ->
                      Salida(s, "render", falla, "error", "Error al obtener eventos")
                 [] OTHER -> Salida(s, "render", falla, "ok", "Dashboard")
  /\ UNCHANGED <<eventos, organizadores, asistentes, perfil, evento_edit, pend>>

----------------------------------------------------------------------------
(* Attendance records: written by the students' registration front end, *)
(* read by this tool                                                     *)

Alumnos == {u \in UsuarioIds : RolNombre(u) = "ESTUDIANTE"}

HayRegistro(e, u) == \E r \in asistentes : r.evento_id = e /\ r.usuario_id = u

\* a student registers for an event: one record per (event, user)
RegistrarAsistente(e, u) ==
  /\ e \in EventoIds
  /\ u \in Alumnos
  /\ ~HayRegistro(e, u)
  /\ Cardinality(asistentes) < MaxAsistentes
  /\ asistentes' = asistentes \cup
                     {[evento_id |-> e, usuario_id |-> u, estado |-> "REGISTRADO"]}
  /\ out' = Salida(0, "registrar", "ninguna", "ok", "")
  /\ UNCHANGED <<eventos, organizadores, perfil, evento_edit, pend>>

\* REGISTRADO -> ASISTIDO
MarcarAsistido(e, u) ==
  /\ [evento_id |-> e, usuario_id |-> u, estado |-> "REGISTRADO"] \in asistentes
  /\ asistentes' = (asistentes \ {[evento_id |-> e, usuario_id |-> u, estado |-> "REGISTRADO"]})
                     \cup {[evento_id |-> e, usuario_id |-> u, estado |-> "ASISTIDO"]}
  /\ out' = Salida(0, "asistir", "ninguna", "ok", "")
  /\ UNCHANGED <<eventos, organizadores, perfil, evento_edit, pend>>

----------------------------------------------------------------------------
(* Specifications *)

\* the store calls of a run that may fail
Fallas == {"ninguna", "dashboard", "lista", "handler", "inscripciones",
           "eventos", "enrolados", "usuarios", "asistentes"}

\* one run of the script in a session of SS, triggered by a click, with the
\* widget values it carries and the store call of it that fails
Paso(SS, Forms, FF, Names, Pws) ==
  \E s \in SS :
    \/ \E username \in Names, password \in Pws, falla \in FF :
         Login(s, username, password, falla)
    \/ Logout(s)
    \/ \E form \in Forms, falla \in FF : CrearEvento(s, form, falla)
    \/ \E e \in EventoIds, falla \in FF : EditarClick(s, e, falla)
    \/ \E e \in EventoIds, falla \in FF : EliminarClick(s, e, falla)
    \/ \E form \in Forms, falla \in FF : GuardarCambios(s, form, falla)
    \/ \E falla \in FF : Cancelar(s, falla)
    \/ \E e \in EventoIds, u \in UsuarioIds, falla \in FF : EnrolarLeer(s, e, u, falla)
    \/ \E falla \in FF : EnrolarEscribir(s, falla)

\* a run with no click
Dibujar(SS, FF) == \E s \in SS, falla \in FF : Render(s, falla)

Asistencia ==
  \E e \in EventoIds, u \in UsuarioIds :
    \/ RegistrarAsistente(e, u)
    \/ MarcarAsistido(e, u)

\* forms whose required name is filled in
FormulariosLlenos == {f \in Formularios : f.nombre # ""}

\* Two sessions, every click, no store failure but the silent one of the
\* enroll view.
Next ==
  Paso(Sesiones, FormulariosLlenos, {"ninguna", "enrolados"},
       {"ana", "beto", "caro"}, {1, 2})

Spec == Init /\ [][Next]_vars

\* One session used by one user after another: every click, no store
\* failure but the silent one of the enroll view.
NextUna ==
  Paso({1}, FormulariosLlenos, {"ninguna", "enrolados"},
       {"ana", "beto", "caro"}, {1, 2})

SpecUna == Init /\ [][NextUna]_vars

\* Two sessions of the organizers creating, deactivating and enrolling.
NextEnrolar ==
  \E s \in Sesiones :
    \/ \E username \in {"ana", "beto"}, password \in {1, 2} :
         Login(s, username, password, "ninguna")
    \/ Logout(s)
    \/ \E form \in {f \in Formularios : f.nombre = "a"} :
         CrearEvento(s, form, "ninguna")
    \/ \E e \in EventoIds : EliminarClick(s, e, "ninguna")
    \/ \E e \in EventoIds, u \in UsuarioIds, falla \in {"ninguna", "enrolados"} :
         EnrolarLeer(s, e, u, falla)
    \/ EnrolarEscribir(s, "ninguna")

SpecEnrolar == Init /\ [][NextEnrolar]_vars

\* One session, every click and every store failure, every form.
NextFallas ==
  \/ Paso({1}, Formularios, Fallas, Usernames, Passwords)
  \/ Dibujar({1}, Fallas)

SpecFallas == Init /\ [][NextFallas]_vars

\* The login page alone, in two sessions.
NextLogin ==
  \E s \in Sesiones :
    \/ \E username \in Usernames, password \in Passwords,
          falla \in {"ninguna", "handler"} :
         Login(s, username, password, falla)
    \/ Logout(s)
    \/ \E falla \in Fallas : Render(s, falla)

SpecLogin == Init /\ [][NextLogin]_vars

\* One session of one organizer, with students registering and attending.
NextAsistencia ==
  \/ Paso({1}, {f \in Formularios : f.nombre = "a"}, {"ninguna"}, {"ana"}, {1})
  \/ Asistencia

SpecAsistencia == Init /\ [][NextAsistencia]_vars

\* Two sessions, every click, every store call answered.
NextSinFallas ==
  Paso(Sesiones, FormulariosLlenos, {"ninguna"}, {"ana", "beto", "caro"}, {1, 2})

SpecSinFallas == Init /\ [][NextSinFallas]_vars

----------------------------------------------------------------------------
(* Properties *)

Par(e, u) == [evento_id |-> e, usuario_id |-> u]

SinRepetidos(seq) == \A i, j \in 1..Len(seq) : seq[i] = seq[j] => i = j

Organizadores == {u \in UsuarioIds : RolNombre(u) = "ORGANIZADOR"}

\* C1: an event is in an organizer's list exactly when it is ACTIVO and the
\* organizer created it or is enrolled on it, and it is listed once.
C1_VisiblesOrganizador ==
  \A u \in Organizadores :
    LET lista == get_eventos_para_organizador(u)
    IN /\ \A e \in EventoIds :
            e \in Rango(lista) <=>
              /\ eventos[e].estado = "ACTIVO"
              /\ \/ eventos[e].usuario_creador_id = u
                 \/ CopiesIn(Par(e, u), organizadores) > 0
       /\ SinRepetidos(lista)

\* an organizer sees an event he is only enrolled on, and does not see an
\* event he is enrolled on that was deactivated
C1_Witness ==
  \E u \in Organizadores, e1, e2 \in EventoIds :
    /\ eventos[e1].usuario_creador_id # u
    /\ eventos[e2].usuario_creador_id # u
    /\ BagIn(Par(e1, u), organizadores)
    /\ BagIn(Par(e2, u), organizadores)
    /\ eventos[e1].estado = "ACTIVO"
    /\ eventos[e2].estado = "INACTIVO"
    /\ get_eventos_para_organizador(u) = <<e1>>

\* C2: a user who is not an organizer is shown exactly the ACTIVO events,
\* each once, whoever he is.
C2_VisiblesEstudiante ==
  \A u \in UsuarioIds \ Organizadores :
    LET lista == ListaEventos(u, RolNombre(u) = "ORGANIZADOR")
    IN /\ Rango(lista) = {e \in EventoIds : eventos[e].estado = "ACTIVO"}
       /\ SinRepetidos(lista)
       /\ \A v \in UsuarioIds \ Organizadores :
            ListaEventos(v, RolNombre(v) = "ORGANIZADOR") = lista

\* a student is logged in while one event is ACTIVO and another is not
C2_Witness ==
  \E s \in Sesiones, e1, e2 \in EventoIds :
    /\ perfil[s] # None
    /\ ~EsOrganizador(s)
    /\ eventos[e1].estado = "ACTIVO"
    /\ eventos[e2].estado = "INACTIVO"
    /\ ListaEventos(perfil[s], FALSE) = <<e1>>

\* C3: a successful enroll write of (E, U) leaves exactly one (E, U) row and
\* every other row as it was, also when the row was already there.
C3_EnrolarIdempotente ==
  [][(out'.op = "enrolar" /\ out'.fin = "ok") =>
       LET par == Par(out'.ev, out'.usr)
       IN /\ CopiesIn(par, organizadores') = 1
          /\ \A q \in BagToSet(organizadores) \cup BagToSet(organizadores') :
               q # par => CopiesIn(q, organizadores') = CopiesIn(q, organizadores)]_vars

\* the enroll write has just been done for a pair that was already enrolled
C3_Witness ==
  /\ out.op = "enrolar"
  /\ out.fin = "ok"
  /\ out.repetido
  /\ CopiesIn(Par(out.ev, out.usr), organizadores) = 1

\* C4: the delete action sets estado to INACTIVO and changes nothing else; an
\* INACTIVO event stays INACTIVO and is in no organizer, student or enroll
\* listing; no step removes a row of any table.
C4_BajaLogica ==
  [][/\ (out'.op = "eliminar" /\ out'.fin = "ok") =>
          /\ out'.ev \in EventoIds
          /\ eventos' = [eventos EXCEPT ![out'.ev].estado = "INACTIVO"]
          /\ asistentes' = asistentes
          /\ organizadores' = organizadores
     /\ \A e \in 1..Len(eventos') :
          eventos'[e].estado = "INACTIVO" =>
            /\ \A u \in UsuarioIds :
                 /\ e \notin Rango(ListaEventos(u, TRUE))'
                 /\ e \notin Rango(ListaEventos(u, FALSE))'
            /\ e \notin Rango(EnrolarEventos)'
     /\ \A e \in EventoIds :
          /\ e \in 1..Len(eventos')
          /\ eventos[e].estado # "ACTIVO" => eventos'[e].estado = "INACTIVO"
     /\ \A r \in asistentes : HayRegistro(r.evento_id, r.usuario_id)'
     /\ \A r \in BagToSet(organizadores) :
          CopiesIn(r, organizadores') >= CopiesIn(r, organizadores)]_vars

\* an event with an attendance record and an enrolled co-organizer has just
\* been deactivated
C4_Witness ==
  /\ out.op = "eliminar"
  /\ out.fin = "ok"
  /\ eventos[out.ev].estado = "INACTIVO"
  /\ \E r \in asistentes : r.evento_id = out.ev
  /\ \E r \in BagToSet(organizadores) : r.evento_id = out.ev

\* C5: in the dashboard summary of every organizer, every visible event has
\* asistidos = its ASISTIDO records, registrados = its other records, and
\* the two add up to the number of its records.
C5_ResumenParticion ==
  \A u \in Organizadores :
    LET resumen == Resumen(u)
    IN /\ DOMAIN resumen = Rango(get_eventos_para_organizador(u))
       /\ \A e \in DOMAIN resumen :
            LET filas == {r \in asistentes : r.evento_id = e}
            IN /\ resumen[e].asistidos =
                    Cardinality({r \in filas : r.estado = "ASISTIDO"})
               /\ resumen[e].registrados =
                    Cardinality({r \in filas : r.estado # "ASISTIDO"})
               /\ resumen[e].registrados + resumen[e].asistidos = Cardinality(filas)

\* the dashboard of the logged-in organizer shows an event with three
\* records, one of them ASISTIDO, as registrados 2 and asistidos 1
C5_Witness ==
  \E s \in Sesiones :
    /\ EsOrganizador(s)
    /\ \E e \in DOMAIN Resumen(perfil[s]) :
         /\ Cardinality({r \in asistentes : r.evento_id = e}) = 3
         /\ Resumen(perfil[s])[e] = [registrados |-> 2, asistidos |-> 1]

\* the accounts as provisioned: username and clear password
Credenciales == {<<"ana", 1>>, <<"beto", 2>>, <<"caro", 1>>, <<"dani", 2>>}

\* C6: a session gets a profile only from a login whose username exists and
\* whose password is that user's; after any other login outcome the profile
\* is still unset, and a session with no profile is shown the login page.
C6_LoginSoloConCredenciales ==
  [][\A s \in Sesiones :
       /\ (perfil[s] = None /\ perfil'[s] # None) =>
            /\ out'.op = "login"
            /\ out'.s = s
            /\ <<out'.username, out'.password>> \in Credenciales
            /\ Usuarios[perfil'[s]].username = out'.username
       /\ (out'.op = "login" /\ out'.s = s
             /\ <<out'.username, out'.password>> \notin Credenciales) =>
            perfil'[s] = None
       /\ (out'.op = "login" /\ out'.s = s /\ out'.falla # "ninguna") =>
            perfil'[s] = None
       /\ (out'.op = "render" /\ out'.s = s /\ perfil'[s] = None) =>
            out'.msg = "Login"]_vars

\* a known user has just been refused for a wrong password
C6_Witness ==
  /\ out.op = "login"
  /\ out.fin = "error"
  /\ out.falla = "ninguna"
  /\ out.username = "beto"
  /\ out.password = 1
  /\ perfil[out.s] = None

\* C7 (as claimed): a login refused for an unknown username shows what a login
\* refused for a wrong password of a known user shows.
C7_MensajeGenerico ==
  (/\ out.op = "login"
   /\ ~out.vacio
   /\ out.falla = "ninguna"
   /\ UsuariosPorUsername(out.username) = {}) =>
     \A c \in Credenciales, password \in Passwords \ {0} :
       <<c[1], password>> \notin Credenciales =>
         LoginResultado(c[1], password, "ninguna").msg = out.msg

\* C8 (as claimed): a click whose required field is empty makes no store call
\* and changes neither the store nor the session.
C8_CampoVacioSinLlamadas ==
  [][out'.vacio =>
       /\ out'.llamadas = 0
       /\ store' = store
       /\ sesion' = sesion]_vars

\* C9 (as claimed): a run in which a store call fails ends in an error message
\* of the view, with store and session as they were.
C9_FallasCapturadas ==
  [][out'.falla # "ninguna" =>
       /\ out'.fin = "error"
       /\ store' = store
       /\ sesion' = sesion]_vars

\* C10: an update of an event row (a saved edit or a deactivation) is written
\* only by a session whose user has the role ORGANIZADOR and is the event's
\* creator or enrolled on it; nothing else changes an event row.
C10_SoloOrganizadoresDelEvento ==
  [][/\ (out'.op \in {"guardar", "eliminar"} /\ out'.ev # None) =>
          LET u == perfil[out'.s]
              e == out'.ev
          IN /\ u # None
             /\ perfil'[out'.s] = u
             /\ RolNombre(u) = "ORGANIZADOR"
             /\ e \in EventoIds
             /\ \/ eventos[e].usuario_creador_id = u
                \/ BagIn(Par(e, u), organizadores)
     /\ \A e \in EventoIds :
          eventos'[e] # eventos[e] =>
            /\ out'.op \in {"guardar", "eliminar"}
            /\ out'.ev = e]_vars

\* an enrolled co-organizer, not the creator, has just saved an edit in a
\* session while the creator is logged in in the other
C10_Witness ==
  /\ out.op = "guardar"
  /\ out.fin = "ok"
  /\ perfil[out.s] # None
  /\ eventos[out.ev].usuario_creador_id # perfil[out.s]
  /\ BagIn(Par(out.ev, perfil[out.s]), organizadores)
  /\ \E t \in Sesiones : perfil[t] = eventos[out.ev].usuario_creador_id

\* the pair (event, its creator)
ParCreador(e) == Par(e, eventos[e].usuario_creador_id)

\* C11 (as amended): no eventos_organizadores row pairs an event with its own
\* creator, the enroll view never offers the creator of the selected event and
\* the enroll write never writes it; the view leaves out the users its own
\* read of the enrolled rows returned, and the write may still find the pair
\* already there, in which case the table is left as it was.
C11_CreadorNuncaEnrolado ==
  [][/\ \A e \in 1..Len(eventos') : ~BagIn(Par(e, eventos'[e].usuario_creador_id),
                                           organizadores')
     /\ (out'.op = "enrolar_leer" /\ out'.fin = "ok") =>
          /\ pend'[out'.s] # ParCreador(pend'[out'.s].evento_id)
          /\ out'.falla = "ninguna" => ~BagIn(pend'[out'.s], organizadores)
     /\ (out'.op = "enrolar" /\ out'.fin = "ok") =>
          /\ Par(out'.ev, out'.usr) # ParCreador(out'.ev)
          /\ out'.repetido => organizadores' = organizadores]_vars

\* an enroll write has found its pair already written by the other session,
\* which read the enrolled rows before it, and the pair is not the creator's
C11_Witness ==
  /\ out.op = "enrolar"
  /\ out.fin = "ok"
  /\ out.repetido
  /\ out.usr # eventos[out.ev].usuario_creador_id
  /\ BagIn(Par(out.ev, out.usr), organizadores)
  /\ \A e \in EventoIds : ~BagIn(ParCreador(e), organizadores)
  /\ \A t \in Sesiones : perfil[t] # None

\* C11 (as claimed): the enroll action neither offers nor writes the creator
\* of the selected event or a user already enrolled on it, whatever the other
\* session does between its read and its write.
C11_NiCreadorNiEnrolado ==
  [][/\ (out'.op = "enrolar_leer" /\ out'.fin = "ok") =>
          /\ pend'[out'.s] # ParCreador(pend'[out'.s].evento_id)
          /\ ~BagIn(pend'[out'.s], organizadores)
     /\ (out'.op = "enrolar" /\ out'.fin = "ok") =>
          /\ Par(out'.ev, out'.usr) # ParCreador(out'.ev)
          /\ ~BagIn(Par(out'.ev, out'.usr), organizadores)]_vars

\* C12: every event row is inserted with estado ACTIVO and by the create
\* action alone; estado changes only from ACTIVO to INACTIVO and only by the
\* delete action on that event; an INACTIVO event stays INACTIVO; no row is
\* removed and usuario_creador_id never changes; a saved edit, also one from a
\* panel opened before the event was deactivated, leaves both as they were.
C12_CicloDeVida ==
  [][/\ Len(eventos') >= Len(eventos)
     /\ \A e \in 1..Len(eventos') :
          IF e \in EventoIds
            THEN /\ eventos'[e].usuario_creador_id = eventos[e].usuario_creador_id
                 /\ eventos[e].estado = "INACTIVO" => eventos'[e].estado = "INACTIVO"
                 /\ eventos'[e].estado # eventos[e].estado =>
                      /\ eventos[e].estado = "ACTIVO"
                      /\ eventos'[e].estado = "INACTIVO"
                      /\ out'.op = "eliminar"
                      /\ out'.ev = e
                 /\ (out'.op = "guardar" /\ out'.ev = e) =>
                      eventos'[e].estado = eventos[e].estado
            ELSE /\ eventos'[e].estado = "ACTIVO"
                 /\ out'.op = "crear"
                 /\ out'.ev = e
                 /\ eventos'[e].usuario_creador_id = perfil[out'.s]]_vars

\* a session has just saved an edit of an event that the other session
\* deactivated in the run before, from a panel opened while it was ACTIVO; the
\* row took the saved name and is still INACTIVO
C12_Witness ==
  /\ out.op = "guardar"
  /\ out.fin = "ok"
  /\ out.tras = "eliminar"
  /\ eventos[out.ev].estado = "INACTIVO"
  /\ eventos[out.ev].nombre = out.form.nombre
  /\ \E t \in Sesiones : t # out.s /\ perfil[t] # None /\ perfil[t] # perfil[out.s]

\* the editable fields of an event row
Editables(row) ==
  <<row.nombre, row.fecha_evento, row.limite_asistentes, row.modelo_negocio_id,
    row.facultad_id>>

\* C13: every save of an edit succeeds whatever was written to the row since
\* the panel was opened, and after it the editable fields of the row hold the
\* values of that save (the limit 0 stored as no limit, the date as its ISO
\* text), every other field and every other row being as before; so after two
\* sessions saved the same event the row holds the values of the later save.
C13_UltimaEscrituraGana ==
  [][out'.op = "guardar" =>
       LET e == out'.ev
           f == out'.form
       IN /\ out'.fin = "ok"
          /\ e = evento_edit[out'.s]
          /\ e \in EventoIds
          /\ Editables(eventos'[e]) =
               <<f.nombre,
                 IF f.fecha = 1 THEN "2025-01-01" ELSE "2025-01-02",
                 IF f.limite = 0 THEN None ELSE f.limite,
                 f.org_id,
                 f.facultad_id>>
          /\ eventos'[e].estado = eventos[e].estado
          /\ eventos'[e].usuario_creador_id = eventos[e].usuario_creador_id
          /\ Len(eventos') = Len(eventos)
          /\ \A d \in EventoIds : d # e => eventos'[d] = eventos[d]]_vars

\* two sessions of different organizers had the edit panel open on the same
\* event; one saved, then the other saved other values in the next run, and
\* the row holds the values of the second save
C13_Witness ==
  /\ out.op = "guardar"
  /\ out.fin = "ok"
  /\ out.tras = "guardar"
  /\ ~out.repetido
  /\ out.form.nombre = "a"
  /\ Editables(eventos[out.ev]) = <<"a", "2025-01-01", None, 1, None>>
  /\ \E t \in Sesiones : t # out.s /\ perfil[t] # None /\ perfil[t] # perfil[out.s]

====
